---- MODULE Spec2Model ----
(***************************************************************************)
(* Model of the compliance pipeline of src/app.py: a streaming CSV of      *)
(* transactions is windowed (sliding, 60 min / 1 min hop), reduced per     *)
(* user and window (sum, count, max of a '|'-joined meta string),          *)
(* left-joined with a static watchlist, filtered by the alert predicate    *)
(* and written, with a rule-based analysis, to the alert sink.             *)
(*                                                                         *)
(* Text is a sequence of code points (Python compares str by code point),  *)
(* so that formatting, splitting and lexicographic max are computed, not   *)
(* assumed.  Optional values are <<>> (None) or <<x>>.  Times are seconds  *)
(* since 2024-01-01T00:00:00, a minute boundary.  Floats are exact         *)
(* rationals n / (d + e * 1e-9); rounding of doubles is not modelled.      *)
(*                                                                         *)
(* The second part models enrich_all of src/rag_enrich.py: the alerts file *)
(* is read, rows without analysis are enriched (RAG or the deterministic   *)
(* fallback) and the result is written to a temporary file that replaces   *)
(* the enriched file.  Files are inodes reached through paths, so that     *)
(* overlapping runs sharing the temporary path are computed.               *)
(***************************************************************************)
EXTENDS Integers, Sequences, FiniteSets, TLC

VARIABLES raw_tx,        \* rows read so far from TRANSACTIONS_CSV (streaming)
          watchlist,     \* rows of WATCHLIST_CSV (static, loaded once)
          window_stats,  \* reducer state: <<user_id, window_start>> -> accumulators
          final_results, \* the rows of alerts_trigger, as selected for output
          sink,          \* lines written by pw.io.csv.write to OUTPUT_CSV
          fault,         \* TRUE once the engine has terminated on an error
          rule_in,       \* arguments of one call of a UDF
          rule_out,      \* its result (None before the call)
          alerts_csv,    \* rows of ALERTS_CSV as enrich_all finds them
          pc,            \* position of each enrich_all run
          out_rows,      \* out_rows / out_df of each enrich_all run
          fd,            \* the open temporary file of each run: inode and offset
          paths,         \* directory: path -> inode (0 when the path is absent)
          inodes         \* content of every inode: the lines written so far

pipe_vars == <<raw_tx, watchlist, window_stats, final_results, sink, fault>>
call_vars == <<rule_in, rule_out>>
enrich_vars == <<alerts_csv, pc, out_rows, fd, paths, inodes>>
vars == <<raw_tx, watchlist, window_stats, final_results, sink, fault, rule_in, rule_out,
          alerts_csv, pc, out_rows, fd, paths, inodes>>

\* ------------------------------------------------------------------ bounds
MaxTx == 2
MaxWatch == 2

\* --------------------------------------------------------------- constants
Duration == 3600   \* timedelta(minutes=60), in seconds
Hop == 60          \* timedelta(minutes=1), in seconds

\* -------------------------------------------------------------------- text
None == <<>>
Some(x) == <<x>>

Pipe == <<124>>
Digit(d) == 48 + d
IsDigit(c) == c >= 48 /\ c <= 57

\* str comparison of Python / Rust: first differing code point, else length.
RECURSIVE StrLessFrom(_, _, _)
StrLessFrom(a, b, i) ==
    IF i > Len(b) THEN FALSE
    ELSE IF i > Len(a) THEN TRUE
    ELSE IF a[i] # b[i] THEN a[i] < b[i]
    ELSE StrLessFrom(a, b, i + 1)

StrLess(a, b) == StrLessFrom(a, b, 1)

IsPrefix(a, b) == Len(a) <= Len(b) /\ SubSeq(b, 1, Len(a)) = a
IsProperPrefix(a, b) == Len(a) < Len(b) /\ IsPrefix(a, b)

\* str(n) for an integer n >= 0
RECURSIVE NatStr(_)
NatStr(n) == IF n < 10 THEN <<Digit(n)>> ELSE NatStr(n \div 10) \o <<Digit(n % 10)>>

TwoDigits(n) == <<Digit(n \div 10), Digit(n % 10)>>

\* x.strip(): leading and trailing blanks removed
RECURSIVE LStrip(_)
LStrip(s) == IF s # <<>> /\ Head(s) = 32 THEN LStrip(Tail(s)) ELSE s
RECURSIVE RStrip(_)
RStrip(s) == IF s # <<>> /\ s[Len(s)] = 32 THEN RStrip(SubSeq(s, 1, Len(s) - 1)) ELSE s
Strip(s) == RStrip(LStrip(s))

AllDigits(s) == s # <<>> /\ \A i \in 1..Len(s) : IsDigit(s[i])

RECURSIVE DigitsVal(_)
DigitsVal(s) == IF s = <<>> THEN 0 ELSE 10 * DigitsVal(SubSeq(s, 1, Len(s) - 1)) + (s[Len(s)] - 48)

\* s.find(c) from position i on (1-based; 0 when c does not occur)
RECURSIVE IndexFrom(_, _, _)
IndexFrom(s, c, i) ==
    IF i > Len(s) THEN 0 ELSE IF s[i] = c THEN i ELSE IndexFrom(s, c, i + 1)

IndexOf(s, c) == IndexFrom(s, c, 1)

\* trailing zeros of a fraction removed ("250000" -> "25", "000000" -> "")
RECURSIVE DropZeros(_)
DropZeros(s) == IF s # <<>> /\ s[Len(s)] = 48 THEN DropZeros(SubSeq(s, 1, Len(s) - 1)) ELSE s

RECURSIVE Pow10(_)
Pow10(k) == IF k = 0 THEN 1 ELSE 10 * Pow10(k - 1)

\* ----------------------------------------------------------------- numbers
\* The float n / (d + e * 1e-9), d >= 1, e in {0, 1}; 0 / x is 0.0 for every x.
Num(n, d, e) == IF n = 0 THEN [n |-> 0, d |-> 1, e |-> 0] ELSE [n |-> n, d |-> d, e |-> e]
Whole(n) == Num(n, 1, 0)
Zero == Whole(0)

\* x > t for an integer threshold t >= 0: n > t*d + t*e*1e-9, and since n and
\* t*d are integers and 0 <= t*e*1e-9 < 1 this is n > t*d.
NumGreater(x, t) == x.n > t * x.d

\* equality of two such floats: n1*(d2 + e2*eps) = n2*(d1 + e1*eps).
NumEq(x, y) == x.n * y.d = y.n * x.d /\ x.n * y.e = y.n * x.e

\* float(s) of Python for the unsigned decimal texts "ddd" and "ddd.ddd";
\* None stands for ValueError.
ParseFloat(s) ==
    LET p == IndexOf(s, 46) IN
    IF p = 0
    THEN IF AllDigits(s) THEN Some(Whole(DigitsVal(s))) ELSE None
    ELSE LET ip == SubSeq(s, 1, p - 1)
             fp == SubSeq(s, p + 1, Len(s))
             fz == DropZeros(fp)
         IN IF (ip = <<>> \/ AllDigits(ip)) /\ (fp = <<>> \/ AllDigits(fp)) /\ (ip \o fp # <<>>)
            THEN Some(Num(DigitsVal(ip) * Pow10(Len(fz)) + DigitsVal(fz), Pow10(Len(fz)), 0))
            ELSE None

\* f"{x:.6f}" for a whole float x >= 0
Format6(x) == NatStr(x.n \div x.d) \o <<46, 48, 48, 48, 48, 48, 48>>

\* -------------------------------------------------------------- timestamps
\* "2024-01-01T" and the texts of the input rows
DatePrefix == <<50, 48, 50, 52, 45, 48, 49, 45, 48, 49, 84>>

\* isoformat() of the instant t seconds after 2024-01-01T00:00:00 (same day)
IsoFormat(t) ==
    DatePrefix \o TwoDigits(t \div 3600) \o <<58>> \o TwoDigits((t % 3600) \div 60)
               \o <<58>> \o TwoDigits(t % 60)

DaysBeforeMonth == <<0, 31, 60, 91, 121, 152, 182, 213, 244, 274, 305, 335>>

\* dt.strptime("%Y-%m-%dT%H:%M:%S") on fixed-width text of the year 2024:
\* seconds since 2024-01-01T00:00:00, or None when the text does not match.
Strptime(s) ==
    IF Len(s) = 19 /\ s[5] = 45 /\ s[8] = 45 /\ s[11] = 84 /\ s[14] = 58 /\ s[17] = 58
       /\ \A i \in {1, 2, 3, 4, 6, 7, 9, 10, 12, 13, 15, 16, 18, 19} : IsDigit(s[i])
    THEN LET y  == DigitsVal(SubSeq(s, 1, 4))
             mo == DigitsVal(SubSeq(s, 6, 7))
             dd == DigitsVal(SubSeq(s, 9, 10))
             hh == DigitsVal(SubSeq(s, 12, 13))
             mi == DigitsVal(SubSeq(s, 15, 16))
             ss == DigitsVal(SubSeq(s, 18, 19))
         IN IF y = 2024 /\ mo \in 1..12 /\ dd \in 1..31 /\ hh < 24 /\ mi < 60 /\ ss < 60
            THEN Some((DaysBeforeMonth[mo] + dd - 1) * 86400 + hh * 3600 + mi * 60 + ss)
            ELSE None
    ELSE None

\* ------------------------------------------------------------------- UDFs
\* safe_float without the strip(): padded numbers fall back to 0.0
safe_float_no_strip(x) ==
    IF x = None THEN Zero
    ELSE LET v == ParseFloat(x[1]) IN IF v = None THEN Zero ELSE v[1]

\* safe_float on the text of the amount column
safe_float(x) ==
    IF x = None THEN Zero
    ELSE LET v == ParseFloat(Strip(x[1])) IN IF v = None THEN Zero ELSE v[1]

\* safe_float on a float column: float(str(x)) gives x back (repr round-trips)
safe_float_num(x) == x

make_meta_str(t, amt, loc, merch, stat) ==
    t \o Pipe \o Format6(amt) \o Pipe \o loc \o Pipe \o merch \o Pipe \o stat

\* m.split("|", maxsplit): at most maxsplit cuts, the rest kept whole
RECURSIVE SplitFrom(_, _, _, _)
SplitFrom(m, cuts, start, maxsplit) ==
    IF maxsplit = 0 \/ cuts = {} THEN <<SubSeq(m, start, Len(m))>>
    ELSE LET p == CHOOSE i \in cuts : \A j \in cuts : i <= j
         IN <<SubSeq(m, start, p - 1)>> \o SplitFrom(m, cuts \ {p}, p + 1, maxsplit - 1)

Split(m, maxsplit) == SplitFrom(m, {i \in 1..Len(m) : m[i] = 124}, 1, maxsplit)

meta_get_time(m) == IF m # <<>> THEN Split(m, 4)[1] ELSE <<>>

meta_get_amount(m) ==
    LET parts == Split(m, 4) IN
    IF Len(parts) < 2 THEN Zero
    ELSE LET v == ParseFloat(Strip(parts[2])) IN IF v = None THEN Zero ELSE v[1]

meta_get_location(m) == LET parts == Split(m, 4) IN IF Len(parts) < 3 THEN <<>> ELSE parts[3]

meta_get_merchant(m) == LET parts == Split(m, 4) IN IF Len(parts) < 4 THEN <<>> ELSE parts[4]

meta_get_status(m) == LET parts == Split(m, 4) IN IF Len(parts) < 5 THEN <<>> ELSE parts[5]

\* ------------------------------------------------------------ typed stream
\* transactions / t_stream: the row with amount_f, time_str, parsed_time, tx_meta
transactions(row) ==
    [user_id |-> row.user_id, merchant |-> row.merchant, location |-> row.location,
     status |-> row.status,
     amount_f |-> safe_float(Some(row.amount)),
     time_str |-> row.time,
     parsed_time |-> Strptime(row.time)]

t_stream(row) ==
    LET r == transactions(row) IN
    [user_id |-> r.user_id, amount_f |-> r.amount_f, parsed_time |-> r.parsed_time,
     tx_meta |-> make_meta_str(r.time_str, r.amount_f, r.location, r.merchant, r.status)]

\* ---------------------------------------------------------------- windows
\* sliding with the window end included: k starts one hop too early
sliding_end_inclusive(t) ==
    LET first_k == (t - Duration) \div Hop
        last_k  == (t \div Hop) + 1
    IN {k * Hop : k \in first_k..(last_k - 1)}

\* pw.temporal.sliding(duration, hop): the starts k*hop of the windows a row
\* with time t is assigned to, k from floor((t - duration) / hop) + 1 to
\* floor(t / hop).
sliding(t) ==
    LET first_k == ((t - Duration) \div Hop) + 1
        last_k  == (t \div Hop) + 1
    IN {k * Hop : k \in first_k..(last_k - 1)}

\* windowby without the groupby(user_id): one group per window for all users
windowby_ungrouped(r) == {<<"*", s>> : s \in sliding(r.parsed_time[1])}

\* windowby(parsed_time).groupby(user_id): the groups a row falls in
windowby(r) == {<<r.user_id, s>> : s \in sliding(r.parsed_time[1])}

\* a reducer that keeps the first value it saw
reducers_max_keep_first(a, b) == a

\* pw.reducers.max on text
reducers_max(a, b) == IF StrLess(a, b) THEN b ELSE a

\* a reducer that drops a row older than the newest window start minus the
\* window duration (a cutoff the pipeline does not configure)
reduce_drop_late(ws, r) ==
    LET keys == windowby(r)
        late == \E k \in DOMAIN ws : r.parsed_time[1] < k[2] - Duration
    IN
    [k \in (DOMAIN ws) \cup (IF late THEN {} ELSE keys) |->
        IF late \/ k \notin keys THEN ws[k]
        ELSE IF k \notin DOMAIN ws
        THEN [velocity_sum_1h |-> r.amount_f.n, velocity_count_1h |-> 1,
              latest_meta |-> r.tx_meta]
        ELSE [velocity_sum_1h |-> ws[k].velocity_sum_1h + r.amount_f.n,
              velocity_count_1h |-> ws[k].velocity_count_1h + 1,
              latest_meta |-> reducers_max(ws[k].latest_meta, r.tx_meta)]]

\* .reduce(user_id, sum(amount_f), count(amount_f), max(tx_meta)): the
\* accumulators of every group after one more row of the stream
reduce(ws, r) ==
    LET keys == windowby(r) IN
    [k \in (DOMAIN ws) \cup keys |->
        IF k \notin keys THEN ws[k]
        ELSE IF k \notin DOMAIN ws
        THEN [velocity_sum_1h |-> r.amount_f.n, velocity_count_1h |-> 1,
              latest_meta |-> r.tx_meta]
        ELSE [velocity_sum_1h |-> ws[k].velocity_sum_1h + r.amount_f.n,
              velocity_count_1h |-> ws[k].velocity_count_1h + 1,
              latest_meta |-> reducers_max(ws[k].latest_meta, r.tx_meta)]]

\* the plain average, without the 1e-9 in the denominator
velocity_avg_1h_plain(w) == Num(w.velocity_sum_1h, w.velocity_count_1h, 0)

\* velocity_sum_1h / (velocity_count_1h + 1e-9)
velocity_avg_1h(w) == Num(w.velocity_sum_1h, w.velocity_count_1h, 1)

\* unpacked: the window row with the fields of latest_meta
unpacked(ws, k) ==
    [user_id |-> k[1],
     velocity_avg_1h |-> velocity_avg_1h(ws[k]),
     velocity_count_1h |-> ws[k].velocity_count_1h,
     latest_time |-> meta_get_time(ws[k].latest_meta),
     latest_amount |-> meta_get_amount(ws[k].latest_meta),
     latest_location |-> meta_get_location(ws[k].latest_meta),
     latest_merchant |-> meta_get_merchant(ws[k].latest_meta),
     latest_status |-> meta_get_status(ws[k].latest_meta)]

\* ------------------------------------------------------------------- join
\* The ids of the rows of unpacked.join(watchlist, user_id == entity_id,
\* how=LEFT) for the window rows keys: <<k, i>> for every watchlist row i
\* that matches window row k, <<k, 0>> when none does.
join_ids(keys, wl) ==
    UNION {LET m == {i \in 1..Len(wl) : wl[i].entity_id = k[1]}
           IN IF m = {} THEN {<<k, 0>>} ELSE {<<k, i>> : i \in m}
           : k \in keys}

\* one row of full_context: the selected columns of a joined row, re-typed.
\* id is the row's key in the engine.
join_select(ws, wl, id) ==
    LET u == unpacked(ws, id[1]) IN
    [id |-> id,
     user_id |-> u.user_id, latest_time |-> u.latest_time, amount |-> u.latest_amount,
     location |-> u.latest_location, merchant |-> u.latest_merchant,
     status |-> u.latest_status,
     velocity_avg_1h |-> u.velocity_avg_1h, velocity_count_1h |-> u.velocity_count_1h,
     watchlist_risk |-> IF id[2] = 0 THEN None ELSE Some(wl[id[2]].risk_level),
     watchlist_notes |-> IF id[2] = 0 THEN None ELSE Some(wl[id[2]].notes),
     amount_f |-> safe_float_num(u.latest_amount),
     velocity_avg_f |-> safe_float_num(u.velocity_avg_1h)]

\* full_context: the joined rows of the window rows keys
full_context(ws, wl, keys) == {join_select(ws, wl, id) : id \in join_ids(keys, wl)}

\* ----------------------------------------------------------------- alerts
\* the filter of alerts_trigger on one row of full_context
alerts_trigger(c) ==
    \/ NumGreater(c.amount_f, 2000)
    \/ NumGreater(c.velocity_avg_f, 5000)
    \/ c.watchlist_risk # None

\* risk not in (None, "", "None")
risk_flagged(risk) == risk # None /\ risk[1] # "" /\ risk[1] # "None"

\* the rule engine with >= in place of > in the thresholds
rule_based_explanation_ge(amount, vel, cnt, risk, notes, merchant, location) ==
    LET ge(x, t) == x.n >= t * x.d
        short == IF ge(amount, 2000) \/ ge(vel, 5000) \/ risk_flagged(risk)
                 THEN "SUSPICIOUS" ELSE "OK"
        r1 == IF ge(amount, 2000) THEN <<[k |-> "amount", v |-> <<amount>>]>> ELSE <<>>
        r2 == IF ge(vel, 5000) THEN <<[k |-> "velocity", v |-> <<vel, cnt>>]>> ELSE <<>>
        r3 == IF risk_flagged(risk)
              THEN <<[k |-> "watchlist",
                      v |-> <<risk[1], IF notes = None \/ notes = Some("") THEN "N/A" ELSE notes[1]>>]>>
              ELSE <<>>
        r4 == IF merchant # <<>> THEN <<[k |-> "merchant", v |-> merchant]>> ELSE <<>>
        r5 == IF location # <<>> THEN <<[k |-> "location", v |-> location]>> ELSE <<>>
        reasons == r1 \o r2 \o r3 \o r4 \o r5
    IN [verdict |-> short,
        reasons |-> IF reasons = <<>> THEN <<[k |-> "fallback", v |-> <<>>]>> ELSE reasons]

\* the rule engine appending the location before the merchant
rule_based_explanation_loc_first(amount, vel, cnt, risk, notes, merchant, location) ==
    LET short == IF NumGreater(amount, 2000) \/ NumGreater(vel, 5000) \/ risk_flagged(risk)
                 THEN "SUSPICIOUS" ELSE "OK"
        r1 == IF NumGreater(amount, 2000) THEN <<[k |-> "amount", v |-> <<amount>>]>> ELSE <<>>
        r2 == IF NumGreater(vel, 5000) THEN <<[k |-> "velocity", v |-> <<vel, cnt>>]>> ELSE <<>>
        r3 == IF risk_flagged(risk)
              THEN <<[k |-> "watchlist",
                      v |-> <<risk[1], IF notes = None \/ notes = Some("") THEN "N/A" ELSE notes[1]>>]>>
              ELSE <<>>
        r4 == IF merchant # <<>> THEN <<[k |-> "merchant", v |-> merchant]>> ELSE <<>>
        r5 == IF location # <<>> THEN <<[k |-> "location", v |-> location]>> ELSE <<>>
        reasons == r1 \o r2 \o r3 \o r5 \o r4
    IN [verdict |-> short,
        reasons |-> IF reasons = <<>> THEN <<[k |-> "fallback", v |-> <<>>]>> ELSE reasons]

\* rule_based_explanation: the verdict and the reasons in the order they are
\* appended; the returned text is "verdict=" + verdict + " || " + the
\* fragments joined by blanks.
rule_based_explanation(amount, vel, cnt, risk, notes, merchant, location) ==
    LET short == IF NumGreater(amount, 2000) \/ NumGreater(vel, 5000) \/ risk_flagged(risk)
                 THEN "SUSPICIOUS" ELSE "OK"
        r1 == IF NumGreater(amount, 2000) THEN <<[k |-> "amount", v |-> <<amount>>]>> ELSE <<>>
        r2 == IF NumGreater(vel, 5000) THEN <<[k |-> "velocity", v |-> <<vel, cnt>>]>> ELSE <<>>
        r3 == IF risk_flagged(risk)
              THEN <<[k |-> "watchlist",
                      v |-> <<risk[1], IF notes = None \/ notes = Some("") THEN "N/A" ELSE notes[1]>>]>>
              ELSE <<>>
        r4 == IF merchant # <<>> THEN <<[k |-> "merchant", v |-> merchant]>> ELSE <<>>
        r5 == IF location # <<>> THEN <<[k |-> "location", v |-> location]>> ELSE <<>>
        reasons == r1 \o r2 \o r3 \o r4 \o r5
    IN [verdict |-> short,
        reasons |-> IF reasons = <<>> THEN <<[k |-> "fallback", v |-> <<>>]>> ELSE reasons]

\* A call of rule_based_explanation whose arguments may be None.  Python
\* raises TypeError on None > 2000 and on int(None): amount is compared first
\* (line 243), vel at the latest on line 247, and cnt is used only when
\* vel > 5000.  None and "" are both false for notes, merchant and location.
rule_based_explanation_call(amount, vel, cnt, risk, notes, merchant, location) ==
    IF amount = None \/ vel = None \/ (NumGreater(vel[1], 5000) /\ cnt = None)
    THEN [raised |-> TRUE, analysis |-> None]
    ELSE [raised |-> FALSE,
          analysis |-> Some(rule_based_explanation(
                               amount[1], vel[1], IF cnt = None THEN 0 ELSE cnt[1], risk, notes,
                               IF merchant = None THEN <<>> ELSE merchant[1],
                               IF location = None THEN <<>> ELSE location[1]))]

\* one row of final_results: the columns written for a row of alerts_trigger
select_final(c) ==
    [id |-> c.id,
     time |-> c.latest_time, user_id |-> c.user_id, amount |-> c.amount_f,
     velocity_avg_1h |-> c.velocity_avg_f, watchlist_risk |-> c.watchlist_risk,
     analysis |-> rule_based_explanation(c.amount_f, c.velocity_avg_f, c.velocity_count_1h,
                                         c.watchlist_risk, c.watchlist_notes,
                                         c.merchant, c.location)]

\* a writer that writes the whole table anew in every commit
csv_write_full(old, new, now) ==
    {[pw_time |-> now, diff |-> -1, row |-> r] : r \in old}
    \cup
    {[pw_time |-> now, diff |-> 1, row |-> r] : r \in new}

\* pw.io.csv.write: the changes of the table in one commit, each a line with
\* the commit's time and diff = +1 (insertion) or -1 (retraction).  A row
\* whose columns change is retracted and inserted anew.  The id of a row is
\* not a column of the file.
csv_write(old, new, now) ==
    {[pw_time |-> now, diff |-> -1, row |-> r] : r \in old \ new}
    \cup
    {[pw_time |-> now, diff |-> 1, row |-> r] : r \in new \ old}

\* ----------------------------------------------------------------- inputs
TimePoints == {0, 3599, 3600, 7260}
AmountTexts == {<<49, 48, 48>>, <<50, 53, 48, 48>>, <<49, 49, 48, 48, 48>>}  \* "100" "2500" "11000"
Del == <<68, 101, 108>>
Delhi == <<68, 101, 108, 104, 105>>
Uber == <<85, 98, 101, 114>>
Approved == <<65, 80, 80, 82, 79, 86, 69, 68>>
Locations == {Del, Delhi}
Merchants == {Uber}
Statuses == {Approved}

\* the rows the generator (or any producer) may append to TRANSACTIONS_CSV
TxRows ==
    [time : {IsoFormat(t) : t \in TimePoints}, user_id : {"u101"}, amount : AmountTexts,
     merchant : Merchants, location : Locations, status : Statuses]
    \cup
    [time : {IsoFormat(t) : t \in TimePoints}, user_id : {"u202"}, amount : {<<50, 53, 48, 48>>},
     merchant : Merchants, location : {Delhi}, status : Statuses]

WatchRows ==
    {[entity_id |-> "u101", risk_level |-> "HIGH", notes |-> "mule"],
     [entity_id |-> "u101", risk_level |-> "", notes |-> ""]}

RECURSIVE SeqsUpTo(_, _)
SeqsUpTo(S, n) ==
    IF n = 0 THEN {<<>>}
    ELSE LET shorter == SeqsUpTo(S, n - 1)
         IN shorter \cup {Append(q, x) : q \in {p \in shorter : Len(p) = n - 1}, x \in S}

Watchlists == SeqsUpTo(WatchRows, MaxWatch)

\* the joined records the rule engine is called on, as a pure function
RuleInputs ==
    [amount_f : {Whole(100), Whole(2000), Whole(2001)},
     velocity_avg_f : {Whole(100), Whole(5000), Whole(5001)},
     velocity_count_1h : {2},
     id : {<<<<"u101", 0>>, 0>>}, user_id : {"u101"}, latest_time : {IsoFormat(0)},
     watchlist_risk : {None, Some(""), Some("None"), Some("HIGH")},
     watchlist_notes : {None, Some(""), Some("mule")},
     merchant : {<<>>, Uber},
     location : {<<>>, Delhi}]

\* pw.run() is called without terminate_on_error, whose default is True: an
\* error raised while a row is evaluated ends the run.
terminate_on_error == TRUE

\* ------------------------------------------------------------------ state
\* enrich_all is not running and has left no file
NoEnrich ==
    /\ alerts_csv = <<>>
    /\ pc = <<>>
    /\ out_rows = <<>>
    /\ fd = <<>>
    /\ paths = <<>>
    /\ inodes = <<>>

Init ==
    /\ raw_tx = <<>>
    /\ watchlist \in Watchlists
    /\ window_stats = <<>>
    /\ final_results = {}
    /\ sink = {}
    /\ fault = FALSE
    /\ rule_in = None
    /\ rule_out = None
    /\ NoEnrich

\* One commit of the streaming reader: a row appended to the transactions
\* file is read, typed, windowed and reduced; the rows of the join that
\* belong to the changed groups are recomputed, filtered and analysed, and
\* the changes of final_results are written to the sink.  strptime raises on
\* a time that does not match the format: the run ends when
\* terminate_on_error is set, else the row takes part in no window.
Ingest(row) ==
    LET r == t_stream(row)
        keys == windowby(r)
    IN
    /\ ~fault
    /\ Len(raw_tx) < MaxTx
    /\ raw_tx' = Append(raw_tx, row)
    /\ IF r.parsed_time = None
       THEN /\ fault' = terminate_on_error
            /\ UNCHANGED <<window_stats, final_results, sink>>
       ELSE /\ window_stats' = reduce(window_stats, r)
            /\ final_results' = {f \in final_results : f.id[1] \notin keys}
                                  \cup {select_final(c) :
                                          c \in {x \in full_context(window_stats', watchlist,
                                                                keys \cap DOMAIN window_stats') :
                                                    alerts_trigger(x)}}
            /\ sink' = sink \cup csv_write(final_results, final_results', Len(raw_tx) + 1)
            /\ fault' = fault
    /\ UNCHANGED <<watchlist, rule_in, rule_out>>
    /\ UNCHANGED enrich_vars

Next == \E row \in TxRows : Ingest(row)

Spec == Init /\ [][Next]_vars

\* The filter and the rule engine alone, on every joined record of RuleInputs.
InitRule ==
    /\ raw_tx = <<>>
    /\ watchlist = <<>>
    /\ window_stats = <<>>
    /\ final_results = {}
    /\ sink = {}
    /\ fault = FALSE
    /\ rule_in \in {Some(c) : c \in RuleInputs}
    /\ rule_out = None
    /\ NoEnrich

EvalRule ==
    /\ rule_in # None
    /\ rule_out = None
    /\ rule_out' = Some([passes |-> alerts_trigger(rule_in[1]),
                         analysis |-> select_final(rule_in[1]).analysis])
    /\ UNCHANGED <<raw_tx, watchlist, window_stats, final_results, sink, fault, rule_in>>
    /\ UNCHANGED enrich_vars

NextRule == EvalRule

SpecRule == InitRule /\ [][NextRule]_vars

\* ------------------------------------------------------------------ replay
\* a run that resumes from the accumulators of the previous run
persisted_state(ws) == ws

\* pw.run() is called without persistence_config: a run starts with no
\* accumulators, whatever the previous run held
fresh_state(ws) == <<>>

\* the accumulators after the rows are read in the order perm from ws
RECURSIVE ReduceAll(_, _, _, _)
ReduceAll(ws, rows, perm, i) ==
    IF i > Len(rows) THEN ws
    ELSE ReduceAll(reduce(ws, t_stream(rows[perm[i]])), rows, perm, i + 1)

\* the orders in which a reader may present n rows
Perms(n) == {f \in [1..n -> 1..n] : \A i, j \in 1..n : f[i] = f[j] => i = j}

ReplayRows ==
    {r \in TxRows : /\ r.user_id = "u101"
                    /\ r.time \in {IsoFormat(0), IsoFormat(3599)}
                    /\ r.location = Delhi}

\* The pipeline is started again on the same transactions file, nothing
\* appended: the rows are presented again (in the order the reader takes
\* them), the tables are computed from them and the output file is written
\* anew, in the first commit of the run (time 0).
Replay(perm) ==
    /\ ~fault
    /\ raw_tx # <<>>
    /\ raw_tx' = raw_tx
    /\ window_stats' = ReduceAll(fresh_state(window_stats), raw_tx, perm, 1)
    /\ final_results' = {select_final(c) :
                            c \in {x \in full_context(window_stats', watchlist,
                                                      DOMAIN window_stats') :
                                      alerts_trigger(x)}}
    /\ sink' = csv_write({}, final_results', 0)
    /\ UNCHANGED <<watchlist, fault, rule_in, rule_out>>
    /\ UNCHANGED enrich_vars

NextReplay ==
    \/ \E row \in ReplayRows : Ingest(row)
    \/ \E perm \in Perms(Len(raw_tx)) : Replay(perm)

SpecReplay == Init /\ [][NextReplay]_vars

\* ---------------------------------------------------- irregular records
\* "2024-01-01 00:00:00": a blank where the format has 'T'
BadTime == <<50, 48, 50, 52, 45, 48, 49, 45, 48, 49, 32, 48, 48, 58, 48, 48, 58, 48, 48>>
Abc == <<97, 98, 99>>                     \* "abc"
Padded2500 == <<32, 50, 53, 48, 48, 32>>  \* " 2500 "
Txt12p5 == <<49, 50, 46, 53>>             \* "12.5"
APipeB == <<65, 124, 66>>                 \* "A|B"

\* rows a producer may append that are not well formed: an amount that is
\* empty, padded or not a number, a time that does not match the format, a
\* location that contains the delimiter
EdgeRows ==
    [time : {IsoFormat(0), BadTime}, user_id : {"u101"},
     amount : {<<49, 48, 48>>, Padded2500, Abc, <<>>},
     merchant : Merchants, location : {Delhi}, status : Statuses]
    \cup
    [time : {IsoFormat(0)}, user_id : {"u101"}, amount : {<<49, 48, 48>>, Padded2500},
     merchant : Merchants, location : {APipeB}, status : Statuses]
    \cup
    [time : {IsoFormat(0), BadTime}, user_id : {"u202"}, amount : {Padded2500},
     merchant : Merchants, location : {Delhi}, status : Statuses]

\* the cells safe_float may be handed: null, empty, padded, not a number, a fraction
FloatCells == {None, Some(<<>>), Some(Padded2500), Some(Abc), Some(Txt12p5)}

InitEdge ==
    /\ raw_tx = <<>>
    /\ watchlist = <<[entity_id |-> "u101", risk_level |-> "HIGH", notes |-> "mule"]>>
    /\ window_stats = <<>>
    /\ final_results = {}
    /\ sink = {}
    /\ fault = FALSE
    /\ rule_in = None
    /\ rule_out = None
    /\ NoEnrich

\* one call of safe_float on a cell
EvalSafeFloat(x) ==
    /\ rule_out = None
    /\ rule_in' = Some(x)
    /\ rule_out' = Some(safe_float(x))
    /\ UNCHANGED pipe_vars
    /\ UNCHANGED enrich_vars

NextEdge ==
    \/ \E row \in EdgeRows : Ingest(row)
    \/ \E x \in FloatCells : EvalSafeFloat(x)

SpecEdge == InitEdge /\ [][NextEdge]_vars

\* the arguments of a call of the rule engine when any of them may be null
NullRuleInputs ==
    [amount : {None, Some(Whole(100)), Some(Whole(2001))},
     vel : {None, Some(Whole(100)), Some(Whole(5001))},
     cnt : {None, Some(2)},
     risk : {None, Some("HIGH")},
     notes : {None, Some("mule")},
     merchant : {None, Some(Uber)},
     location : {None, Some(Delhi)}]

InitNull ==
    /\ raw_tx = <<>>
    /\ watchlist = <<>>
    /\ window_stats = <<>>
    /\ final_results = {}
    /\ sink = {}
    /\ fault = FALSE
    /\ rule_in \in {Some(c) : c \in NullRuleInputs}
    /\ rule_out = None
    /\ NoEnrich

EvalRuleNull ==
    /\ rule_in # None
    /\ rule_out = None
    /\ rule_out' = Some(LET c == rule_in[1] IN
                        rule_based_explanation_call(c.amount, c.vel, c.cnt, c.risk, c.notes,
                                                    c.merchant, c.location))
    /\ UNCHANGED <<rule_in>>
    /\ UNCHANGED pipe_vars
    /\ UNCHANGED enrich_vars

NextNull == EvalRuleNull

SpecNull == InitNull /\ [][NextNull]_vars

\* ------------------------------------------------------------- enrichment
\* src/rag_enrich.py.  A row of a CSV file or of a DataFrame is a function
\* from column names to cells; text cells are code point sequences, the
\* numeric cells of amount and velocity are whole numbers.
MaxAlerts == 2

TxtNan == <<110, 97, 110>>                                   \* str(float("nan"))
TxtPending == <<80, 69, 78, 68, 73, 78, 71>>                 \* "PENDING"
TxtBlank == <<32>>                                           \* " "
TxtNoneWord == <<78, 111, 110, 101>>                         \* "None"
TxtVerdict == <<118, 101, 114, 100, 105, 99, 116>>           \* "verdict"
TxtVerdictOk == TxtVerdict \o <<61, 79, 75>>                 \* "verdict=OK"
TxtFine == <<70, 105, 110, 101>>                             \* "Fine"
TxtHigh == <<72, 73, 71, 72>>                                \* "HIGH"
TxtU101 == <<117, 49, 48, 49>>                               \* "u101"
\* "verdict=SUSPICIOUS || explanation="
RagPrefix == TxtVerdict \o <<61, 83, 85, 83, 80, 73, 67, 73, 79, 85, 83, 32, 124, 124, 32,
                             101, 120, 112, 108, 97, 110, 97, 116, 105, 111, 110, 61>>

NumCols == {"amount", "velocity_avg_1h", "velocity_sum_1h"}

\* pd.read_csv: an empty cell (or "nan") of a text column is read as NaN,
\* whose str() is "nan"; any other text is kept
read_cell(c) == IF c = <<>> \/ c = TxtNan THEN TxtNan ELSE c

read_csv(file) ==
    [i \in 1..Len(file) |->
        [c \in DOMAIN file[i] |-> IF c \in NumCols THEN file[i][c] ELSE read_cell(file[i][c])]]

\* to_csv with na_rep="nan": NaN is written as it prints
write_cell_nan(v) == v

\* DataFrame.to_csv: NaN is written as the empty cell
write_cell(v) == IF v = TxtNan THEN <<>> ELSE v

\* str.lower on ASCII
Lower(t) == [i \in 1..Len(t) |-> IF t[i] >= 65 /\ t[i] <= 90 THEN t[i] + 32 ELSE t[i]]

\* float(row.get(col) or 0) on a numeric column
GetNum(row, col) == IF col \in DOMAIN row THEN row[col] ELSE 0

\* row.get(col) or "" on a text column
GetText(row, col) == IF col \in DOMAIN row THEN row[col] ELSE <<>>

\* d[col] = v on the dict of a row
SetCol(row, col, v) ==
    [c \in (DOMAIN row) \cup {col} |-> IF c = col THEN v ELSE row[c]]

\* the analysis cell of an output row: where it comes from, its text (of the
\* input or of the RAG reply), and verdict and reasons of the fallback
Analysis(by, text, verdict, reasons) ==
    [by |-> by, text |-> text, verdict |-> verdict, reasons |-> reasons]

\* rule_based_explanation(row) of rag_enrich.py: the verdict is the constant
\* of the returned text, the reasons are named in the order they are appended
enrich_rule_based_explanation(row) ==
    LET amount == GetNum(row, "amount")
        vel == GetNum(row, "velocity_sum_1h")
        risk == GetText(row, "watchlist_risk")
        r1 == IF amount > 2000 THEN <<"amount">> ELSE <<>>
        r2 == IF vel > 5000 THEN <<"velocity">> ELSE <<>>
        r3 == IF risk # <<>> /\ risk # TxtNoneWord THEN <<"watchlist">> ELSE <<>>
        r4 == IF GetText(row, "merchant") # <<>> THEN <<"merchant">> ELSE <<>>
        r5 == IF GetText(row, "location") # <<>> THEN <<"location">> ELSE <<>>
        reasons == r1 \o r2 \o r3 \o r4 \o r5
    IN Analysis("fallback", <<>>, "SUSPICIOUS",
                IF reasons = <<>> THEN <<"fallback">> ELSE reasons)

\* ask_rag: resp is what rag_app.run_sync returned, None when the call raised
\* or gave nothing; the result is None or the normalised reply
ask_rag(resp) ==
    IF resp = None \/ resp[1] = <<>> THEN None
    ELSE LET reply == Strip(resp[1]) IN
         IF ~IsPrefix(TxtVerdict, Lower(reply))
         THEN Some(Analysis("rag", RagPrefix \o reply, "", <<>>))
         ELSE Some(Analysis("rag", reply, "", <<>>))

\* the loop body of enrich_all on one row of df; rag is FALSE when rag_app is
\* None, resp is the reply of the RAG layer for this row
enrich_row(row, rag, resp) ==
    LET current_analysis == Strip(GetText(row, "analysis"))
    IN IF current_analysis # <<>> /\ current_analysis # TxtNoneWord
       THEN SetCol(row, "analysis", Analysis("input", row["analysis"], "", <<>>))
       ELSE LET enriched == IF rag THEN ask_rag(resp) ELSE None
            IN SetCol(row, "analysis",
                      IF enriched = None THEN enrich_rule_based_explanation(row)
                      ELSE enriched[1])

\* df after lines 104-107: merchant and location added, empty, when missing
with_merchant_location(row) ==
    [c \in (DOMAIN row) \cup {"merchant", "location"} |->
        IF c \in DOMAIN row THEN row[c] ELSE <<>>]

\* the lines to_csv writes for out_df: the header, then one line per row
to_csv(rows) ==
    IF rows = <<>> THEN <<[kind |-> "header", cells |-> {}]>>
    ELSE <<[kind |-> "header", cells |-> DOMAIN rows[1]]>>
         \o [i \in 1..Len(rows) |->
               [kind |-> "row",
                cells |-> [c \in DOMAIN rows[i] |->
                             IF c \in NumCols THEN rows[i][c]
                             ELSE IF c = "analysis"
                             THEN [rows[i][c] EXCEPT !.text = write_cell(@)]
                             ELSE write_cell(rows[i][c])]]]

\* the bytes a writer leaves behind when it writes past the end of a file
Hole == [kind |-> "hole", cells |-> {}]

\* write(line) at line offset k of a file
WriteAt(content, k, line) ==
    [i \in 1..(IF k > Len(content) THEN k ELSE Len(content)) |->
        IF i = k THEN line ELSE IF i <= Len(content) THEN content[i] ELSE Hole]

\* the rows app.py writes to the alerts file, with the analysis cells an
\* enricher may find: a sentinel, nothing, a blank, an analysis
AppAlertRows ==
    {[time |-> IsoFormat(0), user_id |-> TxtU101, amount |-> a, velocity_avg_1h |-> 100,
      watchlist_risk |-> r, analysis |-> x] :
        a \in {100, 2500}, r \in {<<>>, TxtHigh},
        x \in {TxtPending, <<>>, TxtBlank, TxtVerdictOk}}

\* the rows the pipeline with the PENDING marker writes
PendingAlertRows ==
    {[time |-> IsoFormat(0), user_id |-> TxtU101, amount |-> 100, velocity_sum_1h |-> v,
      watchlist_risk |-> <<>>, analysis |-> x] :
        v \in {100, 6000}, x \in {TxtPending, TxtBlank}}

AlertFiles ==
    {[exists |-> FALSE, rows |-> <<>>]}
    \cup {[exists |-> TRUE, rows |-> q] :
            q \in SeqsUpTo(AppAlertRows, MaxAlerts) \cup SeqsUpTo(PendingAlertRows, MaxAlerts)}

\* what rag_app.run_sync may give for a row: nothing (or an exception), a
\* reply that opens with a verdict, one that does not
RagReplies == {None, Some(TxtVerdictOk), Some(TxtFine)}

InitFiles(procs) ==
    /\ pc = [p \in procs |-> "start"]
    /\ out_rows = [p \in procs |-> <<>>]
    /\ fd = [p \in procs |-> [ino |-> 0, off |-> 0]]
    /\ paths = [tmp |-> 0, enriched |-> 0]
    /\ inodes = <<>>

NoPipeline ==
    /\ raw_tx = <<>>
    /\ watchlist = <<>>
    /\ window_stats = <<>>
    /\ final_results = {}
    /\ sink = {}
    /\ fault = FALSE
    /\ rule_in = None
    /\ rule_out = None

\* enrich_all up to out_rows: the alerts file is read and every row enriched
\* or kept; without an alerts file the run returns at once
Enrich(p, rag, resps) ==
    /\ pc[p] = "start"
    /\ IF ~alerts_csv.exists
       THEN /\ pc' = [pc EXCEPT ![p] = "done"]
            /\ UNCHANGED out_rows
       ELSE LET df == read_csv(alerts_csv.rows) IN
            /\ out_rows' = [out_rows EXCEPT ![p] =
                              [i \in 1..Len(df) |->
                                 enrich_row(with_merchant_location(df[i]), rag, resps[i])]]
            /\ pc' = [pc EXCEPT ![p] = "computed"]
    /\ UNCHANGED <<alerts_csv, fd, paths, inodes>>
    /\ UNCHANGED pipe_vars
    /\ UNCHANGED call_vars

\* out_df.to_csv(tmp): open(tmp, "w") creates the file or truncates the one
\* the path names
OpenTmp(p) ==
    /\ pc[p] = "computed"
    /\ IF paths.tmp = 0
       THEN /\ inodes' = Append(inodes, <<>>)
            /\ paths' = [paths EXCEPT !.tmp = Len(inodes) + 1]
       ELSE /\ inodes' = [inodes EXCEPT ![paths.tmp] = <<>>]
            /\ paths' = paths
    /\ fd' = [fd EXCEPT ![p] = [ino |-> paths'.tmp, off |-> 1]]
    /\ pc' = [pc EXCEPT ![p] = "writing"]
    /\ UNCHANGED <<alerts_csv, out_rows>>
    /\ UNCHANGED pipe_vars
    /\ UNCHANGED call_vars

\* to_csv writes the next line at the offset of its file object; the file is
\* closed after the last one
WriteLine(p) ==
    LET lines == to_csv(out_rows[p]) IN
    /\ pc[p] = "writing"
    /\ inodes' = [inodes EXCEPT ![fd[p].ino] = WriteAt(@, fd[p].off, lines[fd[p].off])]
    /\ fd' = [fd EXCEPT ![p].off = @ + 1]
    /\ pc' = [pc EXCEPT ![p] = IF fd[p].off = Len(lines) THEN "written" ELSE "writing"]
    /\ UNCHANGED <<alerts_csv, out_rows, paths>>
    /\ UNCHANGED pipe_vars
    /\ UNCHANGED call_vars

\* os.replace(tmp, ENRICHED_CSV): the enriched path names the inode of tmp,
\* the tmp path is gone; FileNotFoundError when tmp does not exist
Replace(p) ==
    /\ pc[p] = "written"
    /\ IF paths.tmp = 0
       THEN /\ pc' = [pc EXCEPT ![p] = "failed"]
            /\ UNCHANGED paths
       ELSE /\ paths' = [tmp |-> 0, enriched |-> paths.tmp]
            /\ pc' = [pc EXCEPT ![p] = "done"]
    /\ UNCHANGED <<alerts_csv, out_rows, fd, inodes>>
    /\ UNCHANGED pipe_vars
    /\ UNCHANGED call_vars

RunStep(p) ==
    \/ \E rag \in BOOLEAN : \E resps \in [1..Len(alerts_csv.rows) -> RagReplies] :
          /\ (~rag => \A i \in DOMAIN resps : resps[i] = None)
          /\ Enrich(p, rag, resps)
    \/ OpenTmp(p)
    \/ WriteLine(p)
    \/ Replace(p)

\* one run of enrich_all
InitEnrich ==
    /\ NoPipeline
    /\ alerts_csv \in AlertFiles
    /\ InitFiles({1})

NextEnrich == \E p \in DOMAIN pc : RunStep(p)

SpecEnrich == InitEnrich /\ [][NextEnrich]_vars

\* two runs of enrich_all started on the same alerts file (a cron job and a
\* manual run, say); their steps interleave
InitRace ==
    /\ NoPipeline
    /\ alerts_csv \in {[exists |-> TRUE, rows |-> q] :
                          q \in {p \in SeqsUpTo(PendingAlertRows, MaxAlerts) : Len(p) >= 1}}
    /\ InitFiles({1, 2})

NextRace == \E p \in DOMAIN pc : RunStep(p)

SpecRace == InitRace /\ [][NextRace]_vars

\* ------------------------------------------------------- reference values
\* What the specification of the windows says, computed from the rows read
\* so far and not from the reducer state.
RECURSIVE TypedRows(_)
TypedRows(rows) ==
    IF rows = <<>> THEN <<>> ELSE <<transactions(Head(rows))>> \o TypedRows(Tail(rows))

\* the rows of typed that belong to user u and lie in [s, s + Duration)
Contributing(typed, u, s) ==
    {i \in 1..Len(typed) : /\ typed[i].user_id = u
                           /\ s <= typed[i].parsed_time[1]
                           /\ typed[i].parsed_time[1] < s + Duration}

RECURSIVE SumAmounts(_, _)
SumAmounts(typed, I) ==
    IF I = {} THEN 0
    ELSE LET i == CHOOSE j \in I : TRUE IN typed[i].amount_f.n + SumAmounts(typed, I \ {i})

\* every minute-aligned window start that can hold a row of the inputs
AlignedStarts == {k * Hop : k \in (0 - (Duration \div Hop))..(7260 \div Hop)}

\* ------------------------------------------------------------------ claims
\* C1: for every account and every emitted window [s, s+60min), the sum and
\* the count of the window are the sum of the amounts and the number of that
\* account's transactions with s <= t < s+60min, and every minute-aligned
\* window that holds a transaction is emitted (none omitted, none counted
\* twice).
C1_WindowSumCount ==
    LET typed == TypedRows(raw_tx) IN
    /\ \A k \in DOMAIN window_stats :
          LET I == Contributing(typed, k[1], k[2]) IN
          /\ window_stats[k].velocity_count_1h = Cardinality(I)
          /\ window_stats[k].velocity_sum_1h = SumAmounts(typed, I)
    /\ \A i \in 1..Len(typed) : \A s \in AlignedStarts :
          (s <= typed[i].parsed_time[1] /\ typed[i].parsed_time[1] < s + Duration)
             => <<typed[i].user_id, s>> \in DOMAIN window_stats

\* the window [00:00, 01:00) of u101 holds two transactions (100 and 2500),
\* the windows one hop earlier and one hop later hold one of them each
C1_Witness ==
    /\ <<"u101", 0>> \in DOMAIN window_stats
    /\ window_stats[<<"u101", 0>>].velocity_count_1h = 2
    /\ window_stats[<<"u101", 0>>].velocity_sum_1h = 2600
    /\ <<"u101", 0 - Hop>> \in DOMAIN window_stats
    /\ window_stats[<<"u101", 0 - Hop>>].velocity_count_1h = 1
    /\ <<"u101", Hop>> \in DOMAIN window_stats
    /\ window_stats[<<"u101", Hop>>].velocity_count_1h = 1
\* a float above an integer threshold, stated on the exact value n / (d + e*1e-9)
Above(x, t) == x.n > t * x.d

\* the three trigger predicates of the specification on a joined record
Triggered(c) ==
    \/ Above(c.amount_f, 2000)
    \/ Above(c.velocity_avg_f, 5000)
    \/ c.watchlist_risk \notin {None, Some(""), Some("None")}

\* C2: a joined record passes the alert filter if and only if its latest
\* amount is above 2000, or its average velocity is above 5000, or its
\* risk_level is not one of null, "", "None".  (Stated as given; the filter
\* tests the risk for null only.)
C2_FilterIffTriggered ==
    \A c \in full_context(window_stats, watchlist, DOMAIN window_stats) :
        (\E f \in final_results : f.id = c.id) <=> Triggered(c)

\* C3: every line written to the alert sink carries the verdict SUSPICIOUS.
\* (Stated as given; a watchlist row with risk "" passes the filter and gets OK.)
C3_SinkOnlySuspicious ==
    \A l \in sink : l.row.analysis.verdict = "SUSPICIOUS"

\* C4: the rule engine returns SUSPICIOUS exactly when amount > 2000 or
\* velocity > 5000 or risk is not one of null, "", "None", and OK otherwise;
\* the comparisons are strict.
C4_VerdictIffTriggered ==
    rule_out # None =>
        /\ rule_out[1].analysis.verdict \in {"SUSPICIOUS", "OK"}
        /\ rule_out[1].analysis.verdict = "SUSPICIOUS" <=> Triggered(rule_in[1])

\* amount = 2000, velocity = 5000 and risk "None" give OK
C4_Witness ==
    /\ rule_out # None
    /\ rule_in[1].amount_f = Whole(2000)
    /\ rule_in[1].velocity_avg_f = Whole(5000)
    /\ rule_in[1].watchlist_risk = Some("None")
    /\ rule_out[1].analysis.verdict = "OK"

FragmentOrder == <<"amount", "velocity", "watchlist", "merchant", "location">>

Kinds(reasons) == [i \in 1..Len(reasons) |-> reasons[i].k]

\* C5: the explanation holds one fragment per triggered predicate, a merchant
\* fragment iff the merchant is non-empty and a location fragment iff the
\* location is non-empty, in the order amount, velocity, watchlist, merchant,
\* location; the fallback sentence appears iff no fragment was selected.
C5_FragmentsInOrder ==
    rule_out # None =>
        LET c == rule_in[1]
            Wanted(k) == CASE k = "amount" -> Above(c.amount_f, 2000)
                           [] k = "velocity" -> Above(c.velocity_avg_f, 5000)
                           [] k = "watchlist" -> c.watchlist_risk \notin {None, Some(""), Some("None")}
                           [] k = "merchant" -> c.merchant # <<>>
                           [] k = "location" -> c.location # <<>>
            selected == SelectSeq(FragmentOrder, Wanted)
        IN Kinds(rule_out[1].analysis.reasons)
             = IF selected = <<>> THEN <<"fallback">> ELSE selected

\* no predicate is triggered, merchant and location are given: the two
\* context fragments alone, in that order, and no fallback
C5_Witness ==
    /\ rule_out # None
    /\ ~Triggered(rule_in[1])
    /\ Kinds(rule_out[1].analysis.reasons) = <<"merchant", "location">>
\* the five fields of a transaction, as texts, in the order of the meta string
FieldsOf(r) == <<r.time_str, Format6(r.amount_f), r.location, r.merchant, r.status>>

\* the five fields of the latest snapshot of window row k
SnapshotOf(ws, k) ==
    LET u == unpacked(ws, k) IN
    <<u.latest_time, Format6(u.latest_amount), u.latest_location, u.latest_merchant,
      u.latest_status>>

\* field-by-field order, each field compared lexicographically in turn
FieldLess(x, y) ==
    \E i \in 1..5 : (\A j \in 1..(i - 1) : x[j] = y[j]) /\ StrLess(x[i], y[i])

\* the same with the '|' that follows every field but the last compared too
DelimitedLess(x, y) ==
    \E i \in 1..5 : /\ \A j \in 1..(i - 1) : x[j] = y[j]
                    /\ StrLess(x[i] \o (IF i < 5 THEN Pipe ELSE <<>>),
                               y[i] \o (IF i < 5 THEN Pipe ELSE <<>>))

NoPipe(x) == \A i \in 1..5 : IndexOf(x[i], 124) = 0

PrefixFree(x, y) ==
    \A i \in 1..4 : ~IsProperPrefix(x[i], y[i]) /\ ~IsProperPrefix(y[i], x[i])

C8_JoinOneToOne ==
    \A k \in DOMAIN window_stats :
        LET rows == full_context(window_stats, watchlist, {k})
            m == {i \in 1..Len(watchlist) : watchlist[i].entity_id = k[1]}
        IN /\ Cardinality(rows) = 1
           /\ \A c \in rows :
                 IF m = {}
                 THEN c.watchlist_risk = None /\ c.watchlist_notes = None
                 ELSE LET first == CHOOSE i \in m : \A j \in m : i <= j
                      IN /\ c.watchlist_risk = Some(watchlist[first].risk_level)
                         /\ c.watchlist_notes = Some(watchlist[first].notes)
\* the parsed time of row i of the transactions file
TimeOf(rows, i) == Strptime(rows[i].time)[1]

\* the newest timestamp among the rows (the watermark of the specification)
Watermark(rows) ==
    CHOOSE t \in {TimeOf(rows, i) : i \in 1..Len(rows)} :
        \A i \in 1..Len(rows) : TimeOf(rows, i) <= t

\* this step reads a transaction older than the watermark minus 60 minutes
LateIngest ==
    /\ Len(raw_tx) >= 1
    /\ Len(raw_tx') = Len(raw_tx) + 1
    /\ TimeOf(raw_tx', Len(raw_tx')) < Watermark(raw_tx) - Duration

WindowEnd(l) == l.row.id[1][2] + Duration

MalformedAmounts == {Abc, <<>>}

\* this step reads a transaction with a valid time and a malformed amount
MalformedIngest ==
    /\ Len(raw_tx') = Len(raw_tx) + 1
    /\ raw_tx'[Len(raw_tx')].amount \in MalformedAmounts
    /\ Strptime(raw_tx'[Len(raw_tx')].time) # None

\* C11: safe_float returns a number for every cell (null, empty, padded, not
\* a number), 0.0 whenever the trimmed text does not parse and the value of
\* the trimmed text when it does; a transaction with a malformed amount is
\* ingested without a fault and adds 1 to the count and 0.0 to the sum of
\* each window that contains it.
C11_SafeFloatTotal ==
    [][/\ rule_out' # None =>
            LET x == rule_in'[1]
                y == rule_out'[1]
            IN /\ y \in [n : Nat, d : Nat \ {0}, e : {0, 1}]
               /\ (x = None \/ x[1] \in MalformedAmounts) => y = Zero
               /\ x = Some(Padded2500) => y = Whole(2500)
               /\ x = Some(Txt12p5) => NumEq(y, Num(25, 2, 0))
       /\ MalformedIngest =>
            LET n == Len(raw_tx')
                u == raw_tx'[n].user_id
                t == Strptime(raw_tx'[n].time)[1]
                hit == {<<u, s>> : s \in {x \in AlignedStarts : x <= t /\ t < x + Duration}}
            IN /\ ~fault'
               /\ Cardinality(hit) = Duration \div Hop
               /\ hit \subseteq DOMAIN window_stats'
               /\ \A k \in hit :
                     LET sum0 == IF k \in DOMAIN window_stats
                                 THEN window_stats[k].velocity_sum_1h ELSE 0
                         count0 == IF k \in DOMAIN window_stats
                                   THEN window_stats[k].velocity_count_1h ELSE 0
                     IN /\ window_stats'[k].velocity_sum_1h = sum0
                        /\ window_stats'[k].velocity_count_1h = count0 + 1
    ]_vars

\* after a transaction of 100, one with amount "abc" was read: the window
\* [00:00, 01:00) of u101 counts 2 and sums 100; safe_float(null) gave 0.0
C11_Witness ==
    /\ Len(raw_tx) = 2
    /\ raw_tx[2].amount = Abc
    /\ ~fault
    /\ <<"u101", 0>> \in DOMAIN window_stats
    /\ window_stats[<<"u101", 0>>].velocity_count_1h = 2
    /\ window_stats[<<"u101", 0>>].velocity_sum_1h = 100
    /\ rule_in = Some(None)
    /\ rule_out = Some(Zero)
\* this step reads a transaction whose time does not match the format
BadTimeIngest ==
    /\ Len(raw_tx') = Len(raw_tx) + 1
    /\ Strptime(raw_tx'[Len(raw_tx')].time) = None

\* C12: a transaction whose time does not match YYYY-MM-DDTHH:MM:SS raises
\* no pipeline fault, contributes to no window and leaves every aggregate
\* as it was.
C12_BadTimeDropped ==
    [][BadTimeIngest => (~fault' /\ window_stats' = window_stats)]_vars
\* the default of a missing numeric
OrZero(x) == IF x = None THEN Zero ELSE x[1]

\* C13: rule_based_explanation raises for no combination of null arguments:
\* it returns what it returns with 0.0 for a null numeric and "" for a null
\* text, and so verdict OK with the fallback sentence when all are null.
C13_NullTolerant ==
    rule_out # None =>
        LET c == rule_in[1] IN
        /\ ~rule_out[1].raised
        /\ rule_out[1].analysis =
              Some(rule_based_explanation(OrZero(c.amount), OrZero(c.vel),
                                          IF c.cnt = None THEN 0 ELSE c.cnt[1], c.risk, c.notes,
                                          IF c.merchant = None THEN <<>> ELSE c.merchant[1],
                                          IF c.location = None THEN <<>> ELSE c.location[1]))
        /\ (c.amount = None /\ c.vel = None /\ c.cnt = None /\ c.risk = None /\ c.notes = None
              /\ c.merchant = None /\ c.location = None)
             => rule_out[1].analysis = Some([verdict |-> "OK",
                                             reasons |-> <<[k |-> "fallback", v |-> <<>>]>>])
\* the runs of enrich_all that have computed out_rows from an alerts file
Computed == {p \in DOMAIN pc : pc[p] \notin {"start"} /\ alerts_csv.exists}

\* C14: enrich_all replaces the analysis of every row whose analysis is the
\* sentinel "PENDING" or is empty, and keeps the analysis of every other row.
C14_PendingEnriched ==
    \A p \in Computed : \A i \in 1..Len(alerts_csv.rows) :
        LET cell == alerts_csv.rows[i]["analysis"]
            out == out_rows[p][i]["analysis"]
        IN IF cell = TxtPending \/ Strip(cell) = <<>>
           THEN out.by # "input"
           ELSE out = Analysis("input", cell, "", <<>>)

\* the velocity column of an alerts row, whichever pipeline wrote it
VelocityOf(row) ==
    IF "velocity_sum_1h" \in DOMAIN row THEN row["velocity_sum_1h"] ELSE row["velocity_avg_1h"]

\* C15: a row the RAG layer gave nothing for gets the deterministic fallback
\* and the run does not fail; the fallback's verdict is that of the rule
\* engine of the core pipeline: SUSPICIOUS iff amount > 2000 or velocity >
\* 5000 or risk not in {null, "", "None"}, otherwise OK.
C15_FallbackAgrees ==
    \A p \in Computed :
        /\ pc[p] # "failed"
        /\ \A i \in 1..Len(alerts_csv.rows) :
              LET row == alerts_csv.rows[i]
                  out == out_rows[p][i]["analysis"]
              IN out.by = "fallback" =>
                    out.verdict = IF \/ row["amount"] > 2000
                                     \/ VelocityOf(row) > 5000
                                     \/ row["watchlist_risk"] \notin {<<>>, TxtNoneWord}
                                  THEN "SUSPICIOUS" ELSE "OK"

\* the published file holds the rows of the alerts file in their order, and
\* every input column but analysis with its input value
RowsKept(f) ==
    /\ Len(f) = Len(alerts_csv.rows) + 1
    /\ \A i \in 1..Len(alerts_csv.rows) :
          /\ f[i + 1].kind = "row"
          /\ \A c \in (DOMAIN alerts_csv.rows[i]) \ {"analysis"} :
                /\ c \in DOMAIN f[i + 1].cells
                /\ f[i + 1].cells[c] = alerts_csv.rows[i][c]

C18_PublishedComplete ==
    paths.enriched # 0 =>
        \E p \in Computed : inodes[paths.enriched] = to_csv(out_rows[p])
ValidIngest ==
    /\ Len(raw_tx') = Len(raw_tx) + 1
    /\ Strptime(raw_tx'[Len(raw_tx')].time) # None

\* C19: a transaction with a valid timestamp t of account a changes exactly
\* 60 window aggregates, those of a whose minute-aligned start s has
\* s <= t < s+60min, each by one count; every aggregate of every other
\* account (and every other window of a) is as it was.
C19_SixtyWindowsOfOneAccount ==
    [][ValidIngest =>
          LET n == Len(raw_tx')
              a == raw_tx'[n].user_id
              t == Strptime(raw_tx'[n].time)[1]
              changed == {k \in DOMAIN window_stats' :
                            k \notin DOMAIN window_stats \/ window_stats'[k] # window_stats[k]}
          IN /\ changed = {<<a, s>> : s \in {x \in AlignedStarts : x <= t /\ t < x + Duration}}
             /\ Cardinality(changed) = 60
             /\ DOMAIN window_stats \subseteq DOMAIN window_stats'
             /\ \A k \in changed :
                   window_stats'[k].velocity_count_1h
                      = 1 + (IF k \in DOMAIN window_stats
                             THEN window_stats[k].velocity_count_1h ELSE 0)
    ]_vars

\* a transaction of u202 was read after one of u101: each has its 60 windows
C19_Witness ==
    /\ Len(raw_tx) = 2
    /\ raw_tx[1].user_id = "u101"
    /\ raw_tx[2].user_id = "u202"
    /\ Cardinality({k \in DOMAIN window_stats : k[1] = "u101"}) = 60
    /\ Cardinality({k \in DOMAIN window_stats : k[1] = "u202"}) = 60
    /\ \A k \in DOMAIN window_stats : window_stats[k].velocity_count_1h = 1
\* C20: every emitted window aggregate has count >= 1, and its unpacked
\* latest_time, latest_amount, latest_location, latest_merchant and
\* latest_status are together the fields of one transaction that contributes
\* to the window, whatever the fields contain (a '|' included).
C20_SnapshotIsOneTransaction ==
    \A k \in DOMAIN window_stats :
        LET u == unpacked(window_stats, k) IN
        /\ window_stats[k].velocity_count_1h >= 1
        /\ \E i \in 1..Len(raw_tx) :
              LET r == transactions(raw_tx[i]) IN
              /\ r.parsed_time # None
              /\ r.user_id = k[1]
              /\ k[2] <= r.parsed_time[1] /\ r.parsed_time[1] < k[2] + Duration
              /\ u.latest_time = raw_tx[i].time
              /\ NumEq(u.latest_amount, r.amount_f)
              /\ u.latest_location = raw_tx[i].location
              /\ u.latest_merchant = raw_tx[i].merchant
              /\ u.latest_status = raw_tx[i].status
====
